---- MODULE Spec2Model ----
(***************************************************************************)
(* Model of the Valyu tool wrappers for the Vercel AI SDK                  *)
(* (search, webSearch, financeSearch, academicSearch, paperSearch,         *)
(* lifeSciencesSearch, bioSearch, secSearch, economicsSearch, contents,    *)
(* datasources, datasourcesCategories).                                    *)
(*                                                                         *)
(* A tool factory destructures its configuration once (capturing the API   *)
(* key, the defaults and the remaining options in a closure); execute()    *)
(* then runs per invocation: credential guard, request body composition,   *)
(* one fetch, status test, body read, and the catch block that wraps       *)
(* Errors.                                                                 *)
(*                                                                         *)
(* Conventions.  An optional JavaScript value is a sequence of length at   *)
(* most one: << >> is undefined/absent, <<v>> is the value v.  A JavaScript*)
(* object whose key order matters (the request body) is a sequence of      *)
(* <<key, value>> pairs in insertion order.  An error message built by a   *)
(* template literal is the sequence of its pieces.                         *)
(***************************************************************************)
EXTENDS Integers, Sequences, FiniteSets, TLC

VARIABLES
    env,    \* process.env.VALYU_API_KEY, an optional string
    tool,   \* the tool instance: << >> before the factory ran, else <<closure>>
    inv,    \* the invocations of execute(), one record per slot
    report  \* the invocation of the composite company-research report

vars == <<env, tool, inv, report>>

-----------------------------------------------------------------------------
(* Bounds of the model *)

\* Number of invocation slots (invocations that may be in flight together).
MaxInv == 2

\* Largest number of configuration fields the caller populates at once.
MaxPopulated == 1

(* Program constants *)

\* z.string().min(1).max(500)
MinQueryLen == 1
MaxQueryLen == 500
\* z.array(z.string().url()).min(1).max(10)
MinUrls == 1
MaxUrls == 10

-----------------------------------------------------------------------------
(* Optional values *)

None == << >>
Some(v) == <<v>>
Opt(S) == {None} \cup {Some(v) : v \in S}
IsSet(o) == o # None

\* x = dflt  in a destructuring pattern: the default applies to undefined only
OrDefault(o, dflt) == IF o = None THEN dflt ELSE o[1]

-----------------------------------------------------------------------------
(* The tools *)

CallSourceTools == {"search", "webSearch"}
DomainTools == {"financeSearch", "academicSearch", "paperSearch",
                "lifeSciencesSearch", "bioSearch", "secSearch",
                "economicsSearch"}
SearchTools == CallSourceTools \cup DomainTools
DiscoveryTools == {"datasources", "datasourcesCategories"}
Kinds == SearchTools \cup {"contents"} \cup DiscoveryTools

DefaultSearchType(kind) ==
    IF kind \in CallSourceTools THEN "all" ELSE "proprietary"

\* Fault variant of the default result count: the documented 10.
DefaultMaxNumResultsTen(kind) == 10

DefaultMaxNumResults(kind) ==
    IF kind = "economicsSearch" THEN 3 ELSE 5

AcademicSources ==
    <<"valyu/valyu-arxiv", "valyu/valyu-biorxiv", "valyu/valyu-medrxiv",
      "valyu/valyu-pubmed">>

DefaultIncludedSources(kind) ==
    CASE kind = "financeSearch" ->
           <<"valyu/valyu-stocks", "valyu/valyu-sec-filings",
             "valyu/valyu-earnings-US", "valyu/valyu-balance-sheet-US",
             "valyu/valyu-income-statement-US", "valyu/valyu-cash-flow-US",
             "valyu/valyu-dividends-US", "valyu/valyu-insider-transactions-US",
             "valyu/valyu-market-movers-US", "valyu/valyu-crypto",
             "valyu/valyu-forex", "valyu/valyu-bls", "valyu/valyu-fred",
             "valyu/valyu-world-bank">>
      [] kind = "academicSearch" -> AcademicSources
      [] kind = "paperSearch" -> AcademicSources
      [] kind = "lifeSciencesSearch" ->
           <<"valyu/valyu-clinical-trials", "valyu/valyu-drug-labels",
             "valyu/valyu-chembl", "valyu/valyu-pubchem",
             "valyu/valyu-drugbank", "valyu/valyu-open-targets",
             "valyu/valyu-npi-registry", "valyu/valyu-who-icd",
             "valyu/valyu-ncbi-gene", "valyu/valyu-ncbi-snp",
             "valyu/valyu-ncbi-clinvar", "valyu/valyu-ncbi-geo",
             "valyu/valyu-ncbi-sra">>
      [] kind = "bioSearch" ->
           <<"valyu/valyu-pubmed", "valyu/valyu-biorxiv",
             "valyu/valyu-medrxiv", "valyu/valyu-clinical-trials",
             "valyu/valyu-drug-labels">>
      [] kind = "secSearch" -> <<"valyu/valyu-sec-filings">>
      [] kind = "economicsSearch" ->
           <<"valyu/valyu-bls", "valyu/valyu-fred", "valyu/valyu-world-bank",
             "valyu/valyu-worldbank-indicators", "valyu/valyu-usaspending">>

\* The tools whose execute() copies otherOptions.responseLength into the body.
ForwardsResponseLength(kind) ==
    kind \in {"search", "financeSearch", "academicSearch", "paperSearch",
              "lifeSciencesSearch", "secSearch"}

Endpoint(kind) ==
    CASE kind \in SearchTools -> "https://api.valyu.ai/v1/deepsearch"
      [] kind = "contents" -> "https://api.valyu.ai/v1/contents"
      [] kind = "datasources" -> "https://api.valyu.ai/v1/datasources"
      [] kind = "datasourcesCategories" ->
           "https://api.valyu.ai/v1/datasources/categories"

Method(kind) == IF kind \in DiscoveryTools THEN "GET" ELSE "POST"

\* The fixed text the catch block puts before the caught Error's message.
ErrorPrefix(kind) ==
    CASE kind \in CallSourceTools -> "Failed to search with Valyu: "
      [] kind = "financeSearch" -> "Failed to search financial data with Valyu: "
      [] kind = "academicSearch" -> "Failed to search academic papers with Valyu: "
      [] kind = "paperSearch" -> "Failed to search research papers with Valyu: "
      [] kind = "lifeSciencesSearch" ->
           "Failed to search life sciences data with Valyu: "
      [] kind = "bioSearch" -> "Failed to search biomedical data with Valyu: "
      [] kind = "secSearch" -> "Failed to search SEC filings with Valyu: "
      [] kind = "economicsSearch" -> "Failed to search economic data with Valyu: "
      [] kind = "contents" -> "Failed to extract content with Valyu: "
      [] kind = "datasources" -> "Failed to fetch datasources from Valyu: "
      [] kind = "datasourcesCategories" ->
           "Failed to fetch datasource categories from Valyu: "

-----------------------------------------------------------------------------
(* Caller configurations (the argument of a tool factory) *)

CfgFields == {"apiKey", "searchType", "maxNumResults", "maxPrice",
              "relevanceThreshold", "category", "responseLength",
              "includedSources", "extractEffort"}

\* The fields a factory's configuration type declares.
CfgFieldsOf(kind) ==
    CASE kind \in SearchTools -> CfgFields \ {"extractEffort"}
      [] kind = "contents" -> {"apiKey", "responseLength", "extractEffort"}
      [] kind \in DiscoveryTools -> {"apiKey"}

ConfigSpace ==
    [apiKey : Opt({"", "cfg-key"}),
     searchType : Opt({"web"}),
     maxNumResults : Opt({-1, 0, 10}),
     maxPrice : Opt({0, 30}),
     relevanceThreshold : Opt({0, 2}),
     category : Opt({"", "finance"}),
     responseLength : Opt({"short"}),
     includedSources : Opt({<< >>, <<"b.org", "a.com">>}),
     extractEffort : Opt({"high"})]

EmptyConfig == [f \in CfgFields |-> None]

Populated(c) == {f \in CfgFields : IsSet(c[f])}

\* Configurations with at most MaxPopulated fields set, all of them declared.
Configs(kind) ==
    {c \in ConfigSpace : /\ Cardinality(Populated(c)) <= MaxPopulated
                         /\ Populated(c) \subseteq CfgFieldsOf(kind)}

\* Values of process.env.VALYU_API_KEY
EnvValues == Opt({"env-key"})

-----------------------------------------------------------------------------
(* The tool factory: the destructuring of config at the top of each factory *)

\* Fault variant of the key resolution: the environment wins.
ResolveApiKeyEnvFirst(config, e) ==
    IF IsSet(e) THEN e ELSE config.apiKey

\* const { apiKey = process.env.VALYU_API_KEY, ... } = config
ResolveApiKey(config, e) ==
    IF IsSet(config.apiKey) THEN config.apiKey ELSE e

\* The ...otherOptions rest element: the fields the pattern does not name.
OtherOptions(kind, config) ==
    [maxPrice |-> config.maxPrice,
     relevanceThreshold |-> config.relevanceThreshold,
     category |-> config.category,
     responseLength |-> config.responseLength,
     includedSources |->
         IF kind \in CallSourceTools THEN config.includedSources ELSE None]

\* The values the closure of execute() captures.  config and envAtCreate
\* record what the factory was given; the code keeps neither.
Closure(kind, config, e) ==
    [kind |-> kind,
     config |-> config,
     envAtCreate |-> e,
     apiKey |-> ResolveApiKey(config, e),
     searchType |->
         IF kind \in SearchTools
         THEN Some(OrDefault(config.searchType, DefaultSearchType(kind)))
         ELSE None,
     maxNumResults |->
         IF kind \in SearchTools
         THEN Some(OrDefault(config.maxNumResults, DefaultMaxNumResults(kind)))
         ELSE None,
     includedSources |->
         IF kind \in DomainTools
         THEN Some(OrDefault(config.includedSources,
                             DefaultIncludedSources(kind)))
         ELSE None,
     responseLength |->
         IF kind = "contents"
         THEN Some(OrDefault(config.responseLength, "max"))
         ELSE None,
     extractEffort |->
         IF kind = "contents"
         THEN Some(OrDefault(config.extractEffort, "auto"))
         ELSE None,
     otherOptions |-> OtherOptions(kind, config)]

\* The instance once created (the first one when there are several)
T == tool[1]

\* Fault variant of the closure: the key is resolved again from the
\* environment whenever execute() runs.
ToolOfReadsEnv(i) ==
    LET t == tool[IF i < Len(tool) THEN i ELSE Len(tool)]
    IN  [t EXCEPT !.apiKey = ResolveApiKey(t.config, env)]

\* The closure the execute() of slot i runs in: slot i calls the i-th
\* instance, the last one when there are fewer instances than slots.
ToolOf(i) == tool[IF i < Len(tool) THEN i ELSE Len(tool)]

-----------------------------------------------------------------------------
(* Arguments of execute(), as the input schema shapes them *)

\* The string made of n copies of s
RECURSIVE Repeat(_, _)
Repeat(s, n) ==
    IF n = 0 THEN ""
    ELSE IF n % 2 = 0
         THEN LET half == Repeat(s, n \div 2) IN half \o half
         ELSE s \o Repeat(s, n - 1)

\* The longest query the schema admits, and the shortest one too long
FullQuery == Repeat("q", MaxQueryLen)
LongQuery == Repeat("q", MaxQueryLen + 1)

Queries == {"", "latest AI datacenter news", "  Tesla 10-K  ", FullQuery,
            LongQuery}
CallIncluded == {<< >>, <<"nature.com", "arxiv.org">>}
CallExcluded == {<< >>, <<"reddit.com">>}

\* n distinct URLs
UrlList(n) == [k \in 1..n |-> "https://example.com/" \o ToString(k)]

UrlLists == {<< >>,
             <<"https://example.com/article">>,
             <<"https://b.example/y", "https://example.com/article">>,
             <<"https://example.com/article", "not a url">>,
             UrlList(MaxUrls), UrlList(MaxUrls + 1)}

\* z.string().url() on the strings of the model
IsUrl(s) == s \notin {"", "not a url", "example.com/article"}
Categories == {"", "finance", "health & bio"}

EmptyArgs ==
    [query |-> None, includedSources |-> None, excludedSources |-> None,
     urls |-> None, category |-> None]

ArgsOf(kind) ==
    CASE kind \in CallSourceTools ->
           {[EmptyArgs EXCEPT !.query = q, !.includedSources = inc,
                              !.excludedSources = exc] :
              q \in Opt(Queries), inc \in Opt(CallIncluded),
              exc \in Opt(CallExcluded)}
      [] kind \in DomainTools ->
           {[EmptyArgs EXCEPT !.query = q] : q \in Opt(Queries)}
      [] kind = "contents" ->
           {[EmptyArgs EXCEPT !.urls = u] : u \in Opt(UrlLists)}
      [] kind = "datasources" ->
           {[EmptyArgs EXCEPT !.category = c] : c \in Opt(Categories)}
      [] kind = "datasourcesCategories" -> {EmptyArgs}

\* Fault variant of the schema: the upper bounds are not declared.
ValidArgsNoMax(kind, a) ==
    CASE kind \in SearchTools ->
           IsSet(a.query) /\ Len(a.query[1]) >= MinQueryLen
      [] kind = "contents" ->
           /\ IsSet(a.urls)
           /\ Len(a.urls[1]) >= MinUrls
           /\ \A k \in 1..Len(a.urls[1]) : IsUrl(a.urls[1][k])
      [] OTHER -> TRUE

\* inputSchema: z.string().min(1).max(500); z.array(z.string().url()).min(1).max(10)
ValidArgs(kind, a) ==
    CASE kind \in SearchTools ->
           /\ IsSet(a.query)
           /\ Len(a.query[1]) >= MinQueryLen
           /\ Len(a.query[1]) <= MaxQueryLen
      [] kind = "contents" ->
           /\ IsSet(a.urls)
           /\ Len(a.urls[1]) >= MinUrls
           /\ Len(a.urls[1]) <= MaxUrls
           /\ \A k \in 1..Len(a.urls[1]) : IsUrl(a.urls[1][k])
      [] OTHER -> TRUE

-----------------------------------------------------------------------------
(* JavaScript tests used by execute() *)

\* Truthiness of an optional string: undefined and "" are falsy.
Truthy(o) == IsSet(o) /\ o[1] # ""

\* Fault variant of the list test: an empty list passes.
NonEmptyListDefined(o) == IsSet(o)

\* list && list.length > 0
NonEmptyList(o) == IsSet(o) /\ Len(o[1]) > 0

\* Fault variant of the undefined test: the key is written whatever the
\* value, undefined included.
IfDefinedAlways(key, o) == << <<key, o>> >>

\* if (x !== undefined) requestBody.key = x
IfDefined(key, o) == IF IsSet(o) THEN << <<key, o[1]>> >> ELSE << >>

\* Fault variant of the truthiness test: an empty string passes.
IfTruthyWhenDefined(key, o) ==
    IF IsSet(o) THEN << <<key, o[1]>> >> ELSE << >>

\* if (x) requestBody.key = x
IfTruthy(key, o) == IF Truthy(o) THEN << <<key, o[1]>> >> ELSE << >>

\* Fault variant of the credential guard: tests for undefined only, so an
\* empty key passes.
MissingKeyUndefinedOnly(t) == ~IsSet(t.apiKey)

\* if (!apiKey) throw ...
MissingKey(t) == ~Truthy(t.apiKey)

-----------------------------------------------------------------------------
(* Request composition *)

\* Fault variant of the body: it carries a sequence number that counts the
\* requests sent so far.
BaseBodyNumbered(t, a) ==
    << <<"query", a.query[1]>>,
       <<"search_type", t.searchType[1]>>,
       <<"max_num_results", t.maxNumResults[1]>>,
       <<"request_seq", Cardinality({k \in DOMAIN inv : inv[k].fetches > 0})>> >>

\* Fault variant of the body: the query is trimmed before it is sent.
BaseBodyTrimmed(t, a) ==
    << <<"query", IF a.query[1] = "  Tesla 10-K  "
                  THEN "Tesla 10-K" ELSE a.query[1]>>,
       <<"search_type", t.searchType[1]>>,
       <<"max_num_results", t.maxNumResults[1]>> >>

\* Fault variant of the body: the query is kept in a variable that all
\* invocations share, and an earlier invocation's query is read back.
BaseBodySharedQuery(t, a) ==
    << <<"query", IF IsSet(inv[1].args.query)
                  THEN inv[1].args.query[1] ELSE a.query[1]>>,
       <<"search_type", t.searchType[1]>>,
       <<"max_num_results", t.maxNumResults[1]>> >>

\* const requestBody = { query, search_type, max_num_results }
BaseBody(t, a) ==
    << <<"query", a.query[1]>>,
       <<"search_type", t.searchType[1]>>,
       <<"max_num_results", t.maxNumResults[1]>> >>

\* Fault variant of the optional parameters: the numbers are tested for
\* truthiness, so that 0 is dropped.
OptionalKeysTruthy(t) ==
    (IF IsSet(t.otherOptions.maxPrice) /\ t.otherOptions.maxPrice[1] # 0
     THEN << <<"max_price", t.otherOptions.maxPrice[1]>> >> ELSE << >>)
    \o (IF IsSet(t.otherOptions.relevanceThreshold)
            /\ t.otherOptions.relevanceThreshold[1] # 0
        THEN << <<"relevance_threshold", t.otherOptions.relevanceThreshold[1]>> >>
        ELSE << >>)
    \o IfTruthy("category", t.otherOptions.category)
    \o (IF ForwardsResponseLength(t.kind)
        THEN IfDefined("response_length", t.otherOptions.responseLength)
        ELSE << >>)

\* The "optional parameters" block of a search tool.
OptionalKeys(t) ==
    IfDefined("max_price", t.otherOptions.maxPrice)
    \o IfDefined("relevance_threshold", t.otherOptions.relevanceThreshold)
    \o IfTruthy("category", t.otherOptions.category)
    \o (IF ForwardsResponseLength(t.kind)
        THEN IfDefined("response_length", t.otherOptions.responseLength)
        ELSE << >>)

\* Fault variant of the source precedence: the configuration's list wins.
IncludedSourcesKeyConfigFirst(t, a) ==
    IF NonEmptyList(t.otherOptions.includedSources)
    THEN << <<"included_sources", t.otherOptions.includedSources[1]>> >>
    ELSE IF NonEmptyList(a.includedSources)
         THEN << <<"included_sources", a.includedSources[1]>> >>
         ELSE << >>

\* search, webSearch: "Priority: input params > config options"
IncludedSourcesKey(t, a) ==
    IF NonEmptyList(a.includedSources)
    THEN << <<"included_sources", a.includedSources[1]>> >>
    ELSE IF NonEmptyList(t.otherOptions.includedSources)
         THEN << <<"included_sources", t.otherOptions.includedSources[1]>> >>
         ELSE << >>

\* Fault variant of the exclude list: dropped when an include list is given.
ExcludedSourcesKeyExclusive(a) ==
    IF NonEmptyList(a.excludedSources) /\ ~NonEmptyList(a.includedSources)
    THEN << <<"excluded_sources", a.excludedSources[1]>> >>
    ELSE << >>

ExcludedSourcesKey(a) ==
    IF NonEmptyList(a.excludedSources)
    THEN << <<"excluded_sources", a.excludedSources[1]>> >>
    ELSE << >>

\* Fault variant of the contents body: only what the caller configured is
\* sent.
ContentsBodyConfiguredOnly(t, a) ==
    << <<"urls", a.urls[1]>> >>
    \o IfDefined("response_length", t.config.responseLength)
    \o IfDefined("extract_effort", t.config.extractEffort)

\* contents: { urls, response_length: responseLength, extract_effort:
\* extractEffort }
ContentsBody(t, a) ==
    << <<"urls", a.urls[1]>>,
       <<"response_length", t.responseLength[1]>>,
       <<"extract_effort", t.extractEffort[1]>> >>

\* The requestBody object execute() builds (None for the GET tools).
Compose(t, a) ==
    CASE t.kind \in CallSourceTools ->
           Some(BaseBody(t, a) \o OptionalKeys(t)
                \o IncludedSourcesKey(t, a) \o ExcludedSourcesKey(a))
      [] t.kind \in DomainTools ->
           Some(BaseBody(t, a)
                \o << <<"included_sources", t.includedSources[1]>> >>
                \o OptionalKeys(t))
      [] t.kind = "contents" -> Some(ContentsBody(t, a))
      [] OTHER -> None

\* Object helpers
Keys(obj) == [i \in 1..Len(obj) |-> obj[i][1]]
HasKey(obj, k) == \E i \in 1..Len(obj) : obj[i][1] = k
\* The value under k, as an optional value
Get(obj, k) ==
    IF HasKey(obj, k)
    THEN Some(obj[CHOOSE i \in 1..Len(obj) : obj[i][1] = k][2])
    ELSE None

\* The keys of a request body whose values are arrays of strings
ArrayKeys == {"included_sources", "excluded_sources", "urls"}

\* JSON.stringify of the elements of an array of strings
RECURSIVE Elements(_)
Elements(list) ==
    IF list = << >> THEN ""
    ELSE ToString(list[1]) \o (IF Len(list) > 1 THEN "," ELSE "")
         \o Elements(Tail(list))

\* JSON.stringify of the value under a key
JSONValue(key, value) ==
    IF key \in ArrayKeys THEN "[" \o Elements(value) \o "]"
    ELSE ToString(value)

\* JSON.stringify of an object: its members in insertion order.
RECURSIVE Members(_)
Members(obj) ==
    IF obj = << >> THEN ""
    ELSE ToString(obj[1][1]) \o ":" \o JSONValue(obj[1][1], obj[1][2])
         \o (IF Len(obj) > 1 THEN "," ELSE "") \o Members(Tail(obj))

JSONStringify(obj) == "{" \o Members(obj) \o "}"

\* Fault variant of the encoding: the category is appended as it is.
EncodeURIComponentRaw(s) == s

\* encodeURIComponent on the categories of the model
EncodeURIComponent(s) ==
    CASE s = "health & bio" -> "health%20%26%20bio"
      [] OTHER -> s

\* The URL execute() fetches
Url(t, a) ==
    IF t.kind = "datasources" /\ Truthy(a.category)
    THEN <<Endpoint(t.kind), "?category=", EncodeURIComponent(a.category[1])>>
    ELSE <<Endpoint(t.kind)>>

\* The arguments of fetch()
Request(t, a) ==
    [url |-> Url(t, a),
     method |-> Method(t.kind),
     headers |->
         (IF Method(t.kind) = "POST"
          THEN << <<"Content-Type", "application/json">> >> ELSE << >>)
         \o << <<"x-api-key", t.apiKey[1]>> >>,
     body |-> IF IsSet(Compose(t, a))
              THEN Some(JSONStringify(Compose(t, a)[1])) ELSE None]

-----------------------------------------------------------------------------
(* The upstream and the Fetch API *)

Statuses == {200, 299, 300, 500}

\* response.ok
ResponseOk(status) == status >= 200 /\ status <= 299

BodyThree ==
    "{\"success\":true,\"error\":\"\",\"tx_id\":\"tx-1\",\"results\":[\"r2\",\"r3\",\"r1\"]}"
BodyRateLimited == "rate limited"
BodyTexts == {BodyThree, BodyRateLimited}

\* A response: its status and its body text (None: the body stream breaks
\* while it is read).
Responses == [status : Statuses, body : Opt(BodyTexts)]

\* JSON.parse on the body texts of the model: the value, or None when the
\* text is not JSON.
JsonParse(text) ==
    CASE text = BodyThree ->
           Some([success |-> TRUE, error |-> "", tx_id |-> "tx-1",
                 results |-> <<"r2", "r3", "r1">>])
      [] OTHER -> None

\* Thrown values: class is the constructor ("NonError" for a value that is
\* not an instance of Error), message the pieces of its text.
Err(class, message) == [class |-> class, message |-> message]
IsError(e) == e.class # "NonError"

\* What fetch() may reject with
FetchCauses == {Err("TypeError", <<"fetch failed">>),
                Err("NonError", <<"aborted">>)}

BodyReadError == Err("TypeError", <<"terminated">>)
JsonSyntaxError == Err("SyntaxError", <<"Unexpected token r in JSON at position 0">>)
InvalidInputError == Err("InvalidToolInputError", <<"Invalid input for tool">>)

MissingCredentialError ==
    Err("Error", <<"VALYU_API_KEY is required. Set it in environment variables or pass it in config.">>)

\* Fault variant of the API error: the body text is left out.
ApiErrorWithoutBody(status, errorText) ==
    Err("Error", <<"Valyu API error: ", ToString(status)>>)

\* new Error(`Valyu API error: ${response.status} - ${errorText}`)
ApiError(status, errorText) ==
    Err("Error", <<"Valyu API error: ", ToString(status), " - ", errorText>>)

\* Fault variant of the catch block: what was caught is thrown again as it
\* is.
CatchRethrows(kind, e) == e

\* Fault variant of the catch block: whatever was caught is wrapped, an
\* Error or not.
CatchWrapsAll(kind, e) == Err("Error", <<ErrorPrefix(kind)>> \o e.message)

\* Fault variant of the catch block: the caught message is dropped.
CatchDropsMessage(kind, e) == Err("Error", <<ErrorPrefix(kind)>>)

\* catch (error) { if (error instanceof Error) throw new Error(prefix +
\* error.message); throw error; }
Catch(kind, e) ==
    IF IsError(e)
    THEN Err("Error", <<ErrorPrefix(kind)>> \o e.message)
    ELSE e

\* Fault variant of the return: only the results are passed on.
ReturnedResultsOnly(data) == [results |-> data.results]

\* const data = await response.json(); return data;
Returned(data) == data

-----------------------------------------------------------------------------
(* Invocations *)

Slots == 1..MaxInv

IdleInv ==
    [pc |-> "Idle", args |-> EmptyArgs, requestBody |-> None,
     request |-> None, fetches |-> 0, rejection |-> None, response |-> None,
     textCalls |-> 0, jsonCalls |-> 0, result |-> None, error |-> None]

Terminal == {"Succeeded", "Failed"}

\* Fault variant of the failure: the message ends with the headers of the
\* request that failed.
FailDumpsHeaders(r, e) ==
    [r EXCEPT !.pc = "Failed",
              !.error = Some(IF IsSet(r.request)
                             THEN [e EXCEPT !.message =
                                      @ \o <<r.request[1].headers[
                                                 Len(r.request[1].headers)][2]>>]
                             ELSE e)]

\* Fault variant of the failure: the invocation is queued again.
FailAndRequeue(r, e) == [r EXCEPT !.pc = "Pending", !.error = Some(e)]

Fail(r, e) == [r EXCEPT !.pc = "Failed", !.error = Some(e)]

\* Fault variant of the rejection handling: the request is sent again.
RejectedAndRetried(kind, r, cause) ==
    [r EXCEPT !.rejection = Some(cause), !.fetches = @ + 1]

\* Fault variant of the rejection handling: the rejection is noted but
\* execute() keeps waiting for an answer.
RejectedAndWaits(kind, r, cause) == [r EXCEPT !.rejection = Some(cause)]

\* A rejected fetch() in the try block: control passes to the catch block,
\* which throws; nothing is sent again.
Rejected(kind, r, cause) ==
    Fail([r EXCEPT !.rejection = Some(cause)], Catch(kind, cause))

\* The sections of the company-research report
AllSections ==
    <<"summary", "leadership", "products", "funding", "competitors",
      "filings", "financials", "news", "insiders">>

\* The section filters an agent passes (None: no filter)
SectionFilters ==
    Opt({<<"summary", "financials">>, <<"news">>,
         <<"financials", "filings", "insiders">>})

SectionNames(list) == {list[k] : k \in 1..Len(list)}

IdleReport ==
    [pc |-> "Idle", requested |-> << >>,
     status |-> [s \in SectionNames(AllSections) |-> "NotRequested"],
     raised |-> FALSE, output |-> << >>]

\* Fault variant of the join: one failed section aborts the whole report.
JoinedAllOrNothing(requested, status) ==
    IF \E k \in 1..Len(requested) : status[requested[k]] = "Failed"
    THEN [raised |-> TRUE, output |-> << >>]
    ELSE [raised |-> FALSE,
          output |-> [k \in 1..Len(requested) |-> <<requested[k], "ok">>]]

\* The document joined from the settled sections: one entry per requested
\* section, in order, a failed section marked failed in its place.
Joined(requested, status) ==
    [raised |-> FALSE,
     output |-> [k \in 1..Len(requested) |->
                   <<requested[k],
                     IF status[requested[k]] = "Ok" THEN "ok" ELSE "failed">>]]

Init ==
    /\ env \in EnvValues
    /\ tool = None
    /\ inv = [i \in Slots |-> IdleInv]
    /\ report = IdleReport

\* The host changes the environment variable (dotenv.config(), export, ...).
SetEnv ==
    /\ \E v \in EnvValues : v # env /\ env' = v
    /\ UNCHANGED <<tool, inv, report>>

\* The caller runs a tool factory.
Create ==
    /\ tool = None
    /\ \E kind \in Kinds : \E config \in Configs(kind) :
           tool' = Some(Closure(kind, config, env))
    /\ UNCHANGED <<env, inv, report>>

\* The agent calls the tool: the invocation is pending.
InvokeFrom(i, A) ==
    /\ tool # None
    /\ inv[i].pc = "Idle"
    /\ \E a \in A :
           inv' = [inv EXCEPT ![i] = [@ EXCEPT !.pc = "Pending", !.args = a]]
    /\ UNCHANGED <<env, tool, report>>

Invoke(i) == InvokeFrom(i, ArgsOf(ToolOf(i).kind))

\* The arguments are checked against inputSchema before execute() is called.
Validate(i) ==
    /\ inv[i].pc = "Pending"
    /\ inv' = [inv EXCEPT ![i] =
                 IF ValidArgs(ToolOf(i).kind, inv[i].args)
                 THEN [@ EXCEPT !.pc = "Validated"]
                 ELSE Fail(@, InvalidInputError)]
    /\ UNCHANGED <<env, tool, report>>

\* execute() up to its first await: the credential guard, the request body,
\* the call of fetch().
Execute(i) ==
    /\ inv[i].pc = "Validated"
    /\ LET a == inv[i].args
       IN  inv' = [inv EXCEPT ![i] =
                     IF MissingKey(ToolOf(i))
                     THEN Fail(@, MissingCredentialError)
                     ELSE [@ EXCEPT !.pc = "Dispatched",
                                    !.requestBody = Compose(ToolOf(i), a),
                                    !.request = Some(Request(ToolOf(i), a)),
                                    !.fetches = @ + 1]]
    /\ UNCHANGED <<env, tool, report>>

\* fetch() rejects: the catch block runs.
FetchRejects(i) ==
    /\ inv[i].pc = "Dispatched"
    /\ \E cause \in FetchCauses :
           inv' = [inv EXCEPT ![i] = Rejected(ToolOf(i).kind, @, cause)]
    /\ UNCHANGED <<env, tool, report>>

\* fetch() resolves with a response: execute() tests response.ok and starts
\* reading the body, as text when not ok and as JSON otherwise.
FetchRespondsFrom(i, R) ==
    /\ inv[i].pc = "Dispatched"
    /\ \E resp \in R :
           inv' = [inv EXCEPT ![i] =
                     IF ResponseOk(resp.status)
                     THEN [@ EXCEPT !.pc = "ReadingJson",
                                    !.response = Some(resp),
                                    !.jsonCalls = @ + 1]
                     ELSE [@ EXCEPT !.pc = "ReadingText",
                                    !.response = Some(resp),
                                    !.textCalls = @ + 1]]
    /\ UNCHANGED <<env, tool, report>>

FetchResponds(i) == FetchRespondsFrom(i, Responses)

\* await response.text() settles; execute() throws the API error, or the
\* read error is thrown; either way the catch block runs.
TextSettles(i) ==
    /\ inv[i].pc = "ReadingText"
    /\ LET resp == inv[i].response[1]
           thrown == IF IsSet(resp.body)
                     THEN ApiError(resp.status, resp.body[1])
                     ELSE BodyReadError
       IN  inv' = [inv EXCEPT ![i] = Fail(@, Catch(ToolOf(i).kind, thrown))]
    /\ UNCHANGED <<env, tool, report>>

\* await response.json() settles: the parsed value is returned, or the read
\* or parse error goes through the catch block.
JsonSettles(i) ==
    /\ inv[i].pc = "ReadingJson"
    /\ LET resp == inv[i].response[1]
       IN  inv' = [inv EXCEPT ![i] =
                     IF ~IsSet(resp.body)
                     THEN Fail(@, Catch(ToolOf(i).kind, BodyReadError))
                     ELSE IF ~IsSet(JsonParse(resp.body[1]))
                     THEN Fail(@, Catch(ToolOf(i).kind, JsonSyntaxError))
                     ELSE [@ EXCEPT !.pc = "Succeeded",
                                    !.result =
                                        Some(Returned(JsonParse(resp.body[1])[1]))]]
    /\ UNCHANGED <<env, tool, report>>

\* One invocation at a time
Sequential == {1}

Step(i) ==
    \/ Invoke(i)
    \/ Validate(i)
    \/ Execute(i)
    \/ FetchRejects(i)
    \/ FetchResponds(i)
    \/ TextSettles(i)
    \/ JsonSettles(i)

Next ==
    \/ SetEnv
    \/ Create
    \/ \E i \in Sequential : Step(i)

Spec == Init /\ [][Next]_vars

-----------------------------------------------------------------------------
(* Concurrent invocations: every slot may be in flight at once, on one      *)
(* instance or on two.  The instances and the arguments are a sample, to    *)
(* keep the interleavings countable.                                        *)

ConfigWithKey(k) == [EmptyConfig EXCEPT !.apiKey = Some(k)]

\* A configuration with every field of a search tool set
FullConfig ==
    [EmptyConfig EXCEPT !.apiKey = Some("cfg-key"),
                        !.searchType = Some("web"),
                        !.maxNumResults = Some(10),
                        !.maxPrice = Some(30),
                        !.relevanceThreshold = Some(0),
                        !.category = Some("finance"),
                        !.responseLength = Some("short"),
                        !.includedSources = Some(<<"b.org", "a.com">>)]

\* The instances in use: one webSearch; one made with an empty key; one
\* search made with a full configuration; two
\* webSearch made with different keys; a webSearch and a datasources; two
\* search tool variants made with the same full configuration.
ConcTools(e) ==
    {<<Closure("webSearch", EmptyConfig, e)>>,
     <<Closure("webSearch", ConfigWithKey(""), e)>>,
     <<Closure("search", FullConfig, e)>>,
     <<Closure("webSearch", ConfigWithKey("cfg-key"), e),
       Closure("webSearch", ConfigWithKey("other-key"), e)>>,
     <<Closure("webSearch", EmptyConfig, e),
       Closure("datasources", EmptyConfig, e)>>,
     <<Closure("webSearch", FullConfig, e),
       Closure("financeSearch", FullConfig, e)>>,
     <<Closure("financeSearch", FullConfig, e),
       Closure("secSearch", FullConfig, e)>>}

ConcArgsOf(kind) ==
    CASE kind \in SearchTools ->
           {[EmptyArgs EXCEPT !.query = Some(q)] :
              q \in {"latest AI datacenter news", "  Tesla 10-K  "}}
      [] kind = "datasources" ->
           {[EmptyArgs EXCEPT !.category = c] : c \in Opt({"finance"})}

\* The answers of the upstream: a result, an error status, a 2xx answer that
\* is not JSON.
ConcResponses ==
    {[status |-> 200, body |-> Some(BodyThree)],
     [status |-> 500, body |-> Some(BodyRateLimited)],
     [status |-> 200, body |-> Some(BodyRateLimited)]}

InitConc ==
    /\ env = Some("env-key")
    /\ tool \in ConcTools(env)
    /\ inv = [i \in Slots |-> IdleInv]
    /\ report = IdleReport

InvokeConc(i) == InvokeFrom(i, ConcArgsOf(ToolOf(i).kind))

FetchRespondsConc(i) == FetchRespondsFrom(i, ConcResponses)

StepConc(i) ==
    \/ InvokeConc(i)
    \/ Validate(i)
    \/ Execute(i)
    \/ FetchRejects(i)
    \/ FetchRespondsConc(i)
    \/ TextSettles(i)
    \/ JsonSettles(i)

NextConc ==
    \/ SetEnv
    \/ \E i \in Slots : StepConc(i)

SpecConc == InitConc /\ [][NextConc]_vars

-----------------------------------------------------------------------------
(* Progress: one invocation of an instance, with the steps that are bound   *)
(* to happen.                                                               *)

\* The steps of an invocation that are bound to happen: the host runs the
\* code that is ready to run (validation, execute() up to its await, the
\* continuation after each await), the transport settles the request, and the
\* body read settles.
Fairness ==
    \A i \in Sequential :
        /\ WF_vars(Validate(i))
        /\ WF_vars(Execute(i))
        /\ WF_vars(FetchRejects(i) \/ FetchResponds(i))
        /\ WF_vars(TextSettles(i))
        /\ WF_vars(JsonSettles(i))

\* Every tool made with an empty configuration, and a webSearch made with an
\* empty key.
LiveTools(e) ==
    {<<Closure(kind, EmptyConfig, e)>> : kind \in Kinds}
        \cup {<<Closure("webSearch", ConfigWithKey(""), e)>>}

InitLive ==
    /\ env \in EnvValues
    /\ tool \in LiveTools(env)
    /\ inv = [i \in Slots |-> IdleInv]
    /\ report = IdleReport

NextLive ==
    \/ SetEnv
    \/ \E i \in Sequential : Step(i)

SpecLive == InitLive /\ [][NextLive]_vars /\ Fairness

-----------------------------------------------------------------------------
(* The composite company-research report: the retrievals of the requested   *)
(* sections are started together, settle one by one in any order, and are   *)
(* joined once all have settled.                                            *)

\* The agent asks for a report; no filter means all sections.
ReportInvoke ==
    /\ report.pc = "Idle"
    /\ \E filter \in SectionFilters :
           LET requested == OrDefault(filter, AllSections)
           IN  report' = [report EXCEPT
                   !.pc = "Running",
                   !.requested = requested,
                   !.status = [s \in SectionNames(AllSections) |->
                                 IF s \in SectionNames(requested)
                                 THEN "Fetching" ELSE "NotRequested"]]
    /\ UNCHANGED <<env, tool, inv>>

\* The retrieval of one section succeeds.
SectionSucceeds(s) ==
    /\ report.pc = "Running"
    /\ report.status[s] = "Fetching"
    /\ report' = [report EXCEPT !.status[s] = "Ok"]
    /\ UNCHANGED <<env, tool, inv>>

\* The retrieval of one section fails.
SectionFails(s) ==
    /\ report.pc = "Running"
    /\ report.status[s] = "Fetching"
    /\ report' = [report EXCEPT !.status[s] = "Failed"]
    /\ UNCHANGED <<env, tool, inv>>

\* All retrievals have settled: the sections are joined into the document.
ReportJoin ==
    /\ report.pc = "Running"
    /\ \A s \in SectionNames(report.requested) :
           report.status[s] \in {"Ok", "Failed"}
    /\ LET j == Joined(report.requested, report.status)
       IN  report' = [report EXCEPT !.pc = "Done", !.raised = j.raised,
                                    !.output = j.output]
    /\ UNCHANGED <<env, tool, inv>>

NextReport ==
    \/ ReportInvoke
    \/ \E s \in SectionNames(AllSections) : SectionSucceeds(s)
    \/ \E s \in SectionNames(AllSections) : SectionFails(s)
    \/ ReportJoin

SpecReport == Init /\ [][NextReport]_vars

-----------------------------------------------------------------------------
(* Properties *)

Created == tool # None

\* The invocations that got as far as composing a request
Composed(i) == Created /\ IsSet(inv[i].requestBody)

\* piece is one of the pieces of the message
Contains(message, piece) == \E k \in 1..Len(message) : message[k] = piece

\* message ends with the pieces of tail
EndsWith(message, tail) ==
    /\ Len(message) >= Len(tail)
    /\ SubSeq(message, Len(message) - Len(tail) + 1, Len(message)) = tail

\* Neither the configuration nor the environment gave the factory a key.
NoKeyProvided == ~Truthy(T.config.apiKey) /\ ~Truthy(T.envAtCreate)

\* C1: for every tool, an invocation whose tool got an API key neither from
\* the caller configuration nor from the environment variable fails with the
\* missing-credential error and issues no network call.
C1_MissingCredential ==
    \A i \in Slots :
        (Created /\ NoKeyProvided) =>
            /\ inv[i].fetches = 0
            /\ inv[i].request = None
            /\ inv[i].pc \in {"Idle", "Pending", "Validated", "Failed"}
            /\ (inv[i].pc = "Failed" /\ ValidArgs(T.kind, inv[i].args))
                   => inv[i].error = Some(MissingCredentialError)

C1_Witness ==
    \E i \in Slots :
        /\ Created /\ NoKeyProvided
        /\ T.kind = "datasourcesCategories"
        /\ inv[i].pc = "Failed"
        /\ inv[i].error = Some(MissingCredentialError)
        /\ inv[i].fetches = 0

\* C2: an invocation issues at most one HTTP request, whatever the outcome of
\* that request; once the request has been answered (rejection, any status,
\* unreadable or unparsable body) the count stays at one.
C2_SingleAttempt ==
    \A i \in Slots :
        /\ inv[i].fetches <= 1
        /\ (IsSet(inv[i].rejection) \/ IsSet(inv[i].response))
               => inv[i].fetches = 1

C2_Witness ==
    \E i \in Slots :
        /\ inv[i].pc = "Failed"
        /\ IsSet(inv[i].rejection)
        /\ inv[i].fetches = 1

\* The upstream answered invocation i with a status outside 200..299.
NotOkAnswer(i) ==
    IsSet(inv[i].response) /\ ~ResponseOk(inv[i].response[1].status)

\* C3: when the upstream answers with a non-2xx status, the invocation
\* returns no value and fails with an Error whose message contains the status
\* code and the full body text (when the body text could be read), and the
\* body is never parsed as JSON.
C3_UpstreamError ==
    \A i \in Slots :
        NotOkAnswer(i) =>
            /\ inv[i].jsonCalls = 0
            /\ inv[i].result = None
            /\ inv[i].pc \in {"ReadingText", "Failed"}
            /\ (inv[i].pc = "Failed" /\ IsSet(inv[i].response[1].body)) =>
                   /\ IsSet(inv[i].error)
                   /\ IsError(inv[i].error[1])
                   /\ Contains(inv[i].error[1].message,
                               ToString(inv[i].response[1].status))
                   /\ Contains(inv[i].error[1].message,
                               inv[i].response[1].body[1])

C3_Witness ==
    \E i \in Slots :
        /\ Created /\ T.kind = "webSearch"
        /\ inv[i].pc = "Failed"
        /\ inv[i].response = Some([status |-> 500, body |-> Some(BodyRateLimited)])
        /\ inv[i].error[1].message =
               <<"Failed to search with Valyu: ", "Valyu API error: ", "500",
                 " - ", "rate limited">>

\* The 2xx body of invocation i cannot be read or is not JSON.
BadJsonAnswer(i) ==
    /\ IsSet(inv[i].response)
    /\ ResponseOk(inv[i].response[1].status)
    /\ \/ ~IsSet(inv[i].response[1].body)
       \/ ~IsSet(JsonParse(inv[i].response[1].body[1]))

\* C4: no failure is swallowed: after a transport rejection, a non-2xx status
\* or a 2xx body that fails to parse, the invocation never returns a value,
\* and when it has ended it has raised; a raised Error carries the tool's
\* prefix followed by the whole message of what was caught (for a network
\* failure, the cause's message), and a value that is not an Error is raised
\* as it was thrown.
C4_NoFailureSwallowed ==
    \A i \in Slots :
        (IsSet(inv[i].rejection) \/ NotOkAnswer(i) \/ BadJsonAnswer(i)) =>
            /\ inv[i].result = None
            /\ inv[i].pc # "Succeeded"
            /\ inv[i].pc = "Failed" =>
                   /\ IsSet(inv[i].error)
                   /\ IsError(inv[i].error[1]) =>
                          /\ Len(inv[i].error[1].message) > 1
                          /\ inv[i].error[1].message[1] = ErrorPrefix(T.kind)
                   /\ IsSet(inv[i].rejection) =>
                          IF IsError(inv[i].rejection[1])
                          THEN /\ IsError(inv[i].error[1])
                               /\ EndsWith(inv[i].error[1].message,
                                           inv[i].rejection[1].message)
                          ELSE inv[i].error = inv[i].rejection
                   /\ BadJsonAnswer(i) => IsError(inv[i].error[1])

C4_Witness ==
    \E i \in Slots :
        /\ BadJsonAnswer(i)
        /\ IsSet(inv[i].response[1].body)
        /\ inv[i].pc = "Failed"
        /\ EndsWith(inv[i].error[1].message, JsonSyntaxError.message)

\* The upstream answered invocation i 2xx with a readable JSON body.
GoodAnswer(i) ==
    /\ IsSet(inv[i].response)
    /\ ResponseOk(inv[i].response[1].status)
    /\ IsSet(inv[i].response[1].body)
    /\ IsSet(JsonParse(inv[i].response[1].body[1]))

\* C5: when the upstream answers 2xx with well-formed JSON, the invocation
\* ends by returning exactly the parsed response: every field under its own
\* name, the results in the order received.
C5_Passthrough ==
    \A i \in Slots :
        /\ (GoodAnswer(i) /\ inv[i].pc \in Terminal) =>
               /\ inv[i].pc = "Succeeded"
               /\ inv[i].error = None
               /\ inv[i].result = JsonParse(inv[i].response[1].body[1])
        /\ inv[i].pc = "Succeeded" => GoodAnswer(i)

C5_Witness ==
    \E i \in Slots :
        /\ inv[i].pc = "Succeeded"
        /\ inv[i].response[1].status = 299
        /\ inv[i].result[1].results = <<"r2", "r3", "r1">>
        /\ inv[i].result[1].tx_id = "tx-1"

\* The optional keys of a search request body
OptionalBodyKeys ==
    {"max_price", "relevance_threshold", "category", "response_length",
     "included_sources", "excluded_sources"}

\* C6: no dropped keys: in every composed search request, each field the
\* caller populated (a defined number or preset, a non-empty string, the
\* source list in force) is in the body under its snake_case name with the
\* caller's value.
C6_NoDroppedKeys ==
    \A i \in Slots :
        (Composed(i) /\ T.kind \in SearchTools) =>
            LET b == inv[i].requestBody[1]
                c == T.config
                a == inv[i].args
            IN  /\ Get(b, "query") = a.query
                /\ IsSet(c.searchType) => Get(b, "search_type") = c.searchType
                /\ IsSet(c.maxNumResults)
                       => Get(b, "max_num_results") = c.maxNumResults
                /\ IsSet(c.maxPrice) => Get(b, "max_price") = c.maxPrice
                /\ IsSet(c.relevanceThreshold)
                       => Get(b, "relevance_threshold") = c.relevanceThreshold
                /\ Truthy(c.category) => Get(b, "category") = c.category
                /\ IsSet(c.responseLength)
                       => Get(b, "response_length") = c.responseLength
                /\ NonEmptyList(a.includedSources)
                       => Get(b, "included_sources") = a.includedSources
                /\ (NonEmptyList(c.includedSources)
                        /\ ~NonEmptyList(a.includedSources))
                       => Get(b, "included_sources") = c.includedSources
                /\ NonEmptyList(a.excludedSources)
                       => Get(b, "excluded_sources") = a.excludedSources

\* C7: no extra keys: an optional field the caller left absent and that has
\* no tool default is not a key of the composed search request body, and the
\* body has no key outside the request's field table.
C7_NoExtraKeys ==
    \A i \in Slots :
        (Composed(i) /\ T.kind \in SearchTools) =>
            LET b == inv[i].requestBody[1]
                c == T.config
                a == inv[i].args
            IN  /\ ~IsSet(c.maxPrice) => ~HasKey(b, "max_price")
                /\ ~IsSet(c.relevanceThreshold)
                       => ~HasKey(b, "relevance_threshold")
                /\ ~IsSet(c.category) => ~HasKey(b, "category")
                /\ ~IsSet(c.responseLength) => ~HasKey(b, "response_length")
                /\ ~IsSet(a.excludedSources) => ~HasKey(b, "excluded_sources")
                /\ (T.kind \in CallSourceTools /\ ~IsSet(a.includedSources)
                        /\ ~IsSet(c.includedSources))
                       => ~HasKey(b, "included_sources")
                /\ \A k \in 1..Len(b) :
                       b[k][1] \in {"query", "search_type", "max_num_results"}
                                   \cup OptionalBodyKeys

C7_Witness ==
    \E i \in Slots :
        /\ Composed(i)
        /\ T.kind = "search"
        /\ T.config = EmptyConfig
        /\ inv[i].args.includedSources = None
        /\ inv[i].args.excludedSources = None
        /\ Keys(inv[i].requestBody[1])
               = <<"query", "search_type", "max_num_results">>

\* webSearch made with an empty configuration, called with a query only
WebSearchDefaults(i) ==
    /\ Composed(i)
    /\ T.kind = "webSearch"
    /\ T.config = EmptyConfig
    /\ inv[i].args.includedSources = None
    /\ inv[i].args.excludedSources = None

BothLists(i) ==
    /\ Created
    /\ T.kind \in CallSourceTools
    /\ NonEmptyList(inv[i].args.includedSources)
    /\ NonEmptyList(inv[i].args.excludedSources)

\* C9: in search and webSearch an invocation that supplies a non-empty
\* includedSources and a non-empty excludedSources is not rejected locally
\* because of them, and its body carries both lists as supplied.
C9_BothListsSent ==
    \A i \in Slots :
        BothLists(i) =>
            /\ (inv[i].pc = "Failed" /\ inv[i].fetches = 0)
                   => (~ValidArgs(T.kind, inv[i].args) \/ MissingKey(T))
            /\ inv[i].pc \notin {"Idle", "Pending", "Validated", "Failed"}
                   => Composed(i)
            /\ Composed(i) =>
                   /\ Get(inv[i].requestBody[1], "included_sources")
                          = inv[i].args.includedSources
                   /\ Get(inv[i].requestBody[1], "excluded_sources")
                          = inv[i].args.excludedSources

C9_Witness ==
    \E i \in Slots :
        /\ BothLists(i)
        /\ Composed(i)
        /\ T.kind = "webSearch"
        /\ inv[i].pc = "Dispatched"

\* The included_sources of the body of invocation i, as an optional value
SentSources(i) == Get(inv[i].requestBody[1], "included_sources")

\* The list sent is the list o, an empty list counting as no list
SameList(sent, o) ==
    \/ sent = o
    \/ ~NonEmptyList(sent) /\ ~NonEmptyList(o)

\* C10 as stated: the list sent is the per-call list when one is passed at
\* call time, else the configuration's, else the tool's default; a list of
\* lower precedence is never sent when one of higher precedence was supplied.
C10_PrecedenceAsStated ==
    \A i \in Slots :
        (Composed(i) /\ T.kind \in SearchTools) =>
            IF T.kind \in CallSourceTools /\ IsSet(inv[i].args.includedSources)
            THEN SameList(SentSources(i), inv[i].args.includedSources)
            ELSE IF IsSet(T.config.includedSources)
            THEN SameList(SentSources(i), T.config.includedSources)
            ELSE IF T.kind \in DomainTools
            THEN SentSources(i) = Some(DefaultIncludedSources(T.kind))
            ELSE SentSources(i) = None

\* C10 amended: in search and webSearch the list sent is the per-call list
\* when it is non-empty, else the configuration's list when that is
\* non-empty, else there is no included_sources key; in the domain tools it
\* is the configuration's list when one is given (even empty), else the
\* tool's default list.  Exactly one list is sent, never a merge.
C10_Precedence ==
    \A i \in Slots :
        (Composed(i) /\ T.kind \in SearchTools) =>
            IF T.kind \in CallSourceTools
            THEN IF NonEmptyList(inv[i].args.includedSources)
                 THEN SentSources(i) = inv[i].args.includedSources
                 ELSE IF NonEmptyList(T.config.includedSources)
                 THEN SentSources(i) = T.config.includedSources
                 ELSE SentSources(i) = None
            ELSE IF IsSet(T.config.includedSources)
                 THEN SentSources(i) = T.config.includedSources
                 ELSE SentSources(i) = Some(DefaultIncludedSources(T.kind))

C10_Witness ==
    \E i \in Slots :
        /\ Composed(i)
        /\ T.kind = "search"
        /\ NonEmptyList(T.config.includedSources)
        /\ NonEmptyList(inv[i].args.includedSources)
        /\ SentSources(i) = inv[i].args.includedSources
        /\ SentSources(i) # T.config.includedSources

\* The x-api-key header of the request of invocation i, as an optional value
SentKey(i) == Get(inv[i].request[1].headers, "x-api-key")

\* C11: API key precedence: every request an invocation sends carries an
\* x-api-key header equal to the key of the caller configuration when one
\* was supplied, and equal to the environment variable's value (as the
\* factory read it) only when the configuration supplied none; the
\* environment value never overrides a caller-supplied key.
C11_KeyPrecedence ==
    \A i \in Slots :
        (Created /\ IsSet(inv[i].request)) =>
            /\ IsSet(SentKey(i))
            /\ IF IsSet(T.config.apiKey)
               THEN SentKey(i) = T.config.apiKey
               ELSE SentKey(i) = T.envAtCreate

C11_Witness ==
    \E i \in Slots :
        /\ Created
        /\ T.config.apiKey = Some("cfg-key")
        /\ T.envAtCreate = Some("env-key")
        /\ IsSet(inv[i].request)
        /\ SentKey(i) = Some("cfg-key")

\* execute() of invocation i has run its credential guard.
Guarded(i) ==
    /\ Created
    /\ inv[i].pc \notin {"Idle", "Pending", "Validated"}
    /\ ValidArgs(T.kind, inv[i].args)

\* C12 as stated: the environment fallback is read at each invocation: for a
\* tool created without a caller-supplied key, execute() proceeds to the
\* network call with the environment's value of that moment when there is
\* one, and fails with the missing-credential error only when there is none.
C12_KeyReadAtInvocation ==
    [][\A i \in Slots :
          (/\ Created
           /\ ~IsSet(T.config.apiKey)
           /\ inv[i].pc = "Validated"
           /\ inv'[i].pc # "Validated")
          => IF Truthy(env)
             THEN /\ inv'[i].pc = "Dispatched"
                  /\ Get(inv'[i].request[1].headers, "x-api-key") = env
             ELSE inv'[i].error = Some(MissingCredentialError)]_vars

\* C12 amended: the resolved configuration, environment fallback included, is
\* derived once, when the tool is created: for a tool created without a
\* caller-supplied key, an invocation uses the environment variable's value
\* as it was at creation, whatever the variable holds when execute() runs; a
\* key placed in the environment after creation leaves the invocation failing
\* with the missing-credential error, without a network call.
C12_KeyReadAtCreation ==
    \A i \in Slots :
        (Guarded(i) /\ ~IsSet(T.config.apiKey)) =>
            IF Truthy(T.envAtCreate)
            THEN /\ inv[i].fetches = 1
                 /\ SentKey(i) = T.envAtCreate
            ELSE /\ inv[i].fetches = 0
                 /\ inv[i].request = None
                 /\ inv[i].pc = "Failed"
                 /\ inv[i].error = Some(MissingCredentialError)

C12_Witness ==
    \E i \in Slots :
        /\ Guarded(i)
        /\ T.kind = "webSearch"
        /\ ~IsSet(T.config.apiKey)
        /\ T.envAtCreate = None
        /\ env = Some("env-key")
        /\ inv[i].pc = "Failed"
        /\ inv[i].error = Some(MissingCredentialError)
        /\ inv[i].fetches = 0

\* The arguments break the declared input schema, in the claim's terms.
ViolatesSchema(kind, a) ==
    CASE kind \in SearchTools ->
           \/ ~IsSet(a.query)
           \/ Len(a.query[1]) = 0
           \/ Len(a.query[1]) > 500
      [] kind = "contents" ->
           \/ ~IsSet(a.urls)
           \/ Len(a.urls[1]) = 0
           \/ Len(a.urls[1]) > 10
           \/ \E k \in 1..Len(a.urls[1]) : ~IsUrl(a.urls[1][k])
      [] OTHER -> FALSE

OwnFailure(t, r) ==
    IF ~ValidArgs(t.kind, r.args) THEN InvalidInputError
    ELSE IF MissingKey(t) THEN MissingCredentialError
    ELSE IF IsSet(r.rejection) THEN Catch(t.kind, r.rejection[1])
    ELSE IF ~IsSet(r.response[1].body) THEN Catch(t.kind, BodyReadError)
    ELSE IF ~ResponseOk(r.response[1].status)
    THEN Catch(t.kind, ApiError(r.response[1].status, r.response[1].body[1]))
    ELSE Catch(t.kind, JsonSyntaxError)

\* C14: invocations are independent: in every interleaving of concurrent
\* invocations of one instance or of two, the request an invocation sends is
\* made of its own arguments and of its own instance's configuration, and
\* the value it returns or the error it raises is the one its own arguments,
\* its own instance and the upstream's answer to its own request determine,
\* whatever the other invocations did, failures included.
C14_Independent ==
    \A i \in Slots :
        LET t == ToolOf(i)
            r == inv[i]
        IN  /\ IsSet(r.request) =>
                /\ r.request[1].url[1] = Endpoint(t.kind)
                /\ r.request[1].method = Method(t.kind)
                /\ Get(r.request[1].headers, "x-api-key") = t.apiKey
                /\ r.requestBody = Compose(t, r.args)
                /\ r.request = Some(Request(t, r.args))
                /\ t.kind \in SearchTools
                       => Get(r.requestBody[1], "query") = r.args.query
            /\ r.pc = "Succeeded" =>
                /\ r.error = None
                /\ IsSet(r.response)
                /\ r.result = JsonParse(r.response[1].body[1])
            /\ r.pc = "Failed" =>
                /\ r.result = None
                /\ r.error = Some(OwnFailure(t, r))

C14_Witness ==
    /\ Len(tool) = 2
    /\ tool[1].kind = "webSearch" /\ tool[2].kind = "datasources"
    /\ inv[1].pc = "ReadingText"
    /\ inv[1].response[1].status = 500
    /\ inv[2].pc = "ReadingJson"
    /\ inv[2].request[1].url = <<Endpoint("datasources"), "?category=", "finance">>
    /\ Get(inv[1].requestBody[1], "query") = Some("  Tesla 10-K  ")

\* Two instances made alike but for the value of their (non-empty) API key
DifferOnlyInKey(t1, t2) ==
    /\ Truthy(t1.apiKey) /\ Truthy(t2.apiKey)
    /\ t1.apiKey # t2.apiKey
    /\ [t1 EXCEPT !.apiKey = None, !.config = [@ EXCEPT !.apiKey = None]]
         = [t2 EXCEPT !.apiKey = None, !.config = [@ EXCEPT !.apiKey = None]]

\* Two invocations given the same arguments and the same upstream outcome
SameRun(i, j) ==
    /\ inv[i].args = inv[j].args
    /\ inv[i].response = inv[j].response
    /\ inv[i].rejection = inv[j].rejection

\* C15: the API key never appears in an error message: two invocations that
\* differ only in the value of the non-empty API key and meet the same
\* upstream status, body and transport failure raise identical errors; no
\* piece of any message is the key; and the missing-credential text is raised
\* only when the key is absent.
C15_KeyNotInErrors ==
    /\ \A i, j \in Slots :
           (/\ DifferOnlyInKey(ToolOf(i), ToolOf(j))
            /\ SameRun(i, j)
            /\ inv[i].pc = "Failed" /\ inv[j].pc = "Failed")
           => inv[i].error = inv[j].error
    /\ \A i \in Slots :
           IsSet(inv[i].error) =>
               /\ Truthy(ToolOf(i).apiKey)
                      => ~Contains(inv[i].error[1].message, ToolOf(i).apiKey[1])
               /\ inv[i].error = Some(MissingCredentialError)
                      => MissingKey(ToolOf(i))

C15_Witness ==
    /\ Len(tool) = 2
    /\ DifferOnlyInKey(tool[1], tool[2])
    /\ SameRun(1, 2)
    /\ inv[1].pc = "Failed" /\ inv[2].pc = "Failed"
    /\ inv[1].response = Some([status |-> 500, body |-> Some(BodyRateLimited)])
    /\ SentKey(1) # SentKey(2)
    /\ inv[1].error = inv[2].error

\* C16: for every search tool and every valid query, the query field of the
\* composed request body is the agent's query string unchanged (spaces and
\* length included), first in the body and present once, whatever the
\* configuration.
C16_QueryVerbatim ==
    \A i \in Slots :
        (Composed(i) /\ T.kind \in SearchTools) =>
            LET b == inv[i].requestBody[1]
            IN  /\ b[1] = <<"query", inv[i].args.query[1]>>
                /\ Len(b[1][2]) = Len(inv[i].args.query[1])
                /\ \A k \in 2..Len(b) : b[k][1] # "query"

C16_Witness ==
    \E i \in Slots :
        /\ Composed(i)
        /\ T.kind = "lifeSciencesSearch"
        /\ IsSet(T.config.category)
        /\ inv[i].args.query = Some("  Tesla 10-K  ")
        /\ inv[i].requestBody[1][1] = <<"query", "  Tesla 10-K  ">>

\* Several sections were requested, one at least failed, one at least
\* succeeded.
PartialFailure ==
    /\ Len(report.requested) > 1
    /\ \E s \in SectionNames(report.requested) : report.status[s] = "Failed"
    /\ \E s \in SectionNames(report.requested) : report.status[s] = "Ok"

\* C17: composite company-research report: when several sections are
\* requested and the retrieval of one fails while others succeed, the call
\* does not raise; its output has an entry for each requested section, each
\* successful section as such and the failed section marked failed in place.
C17_PartialFailure ==
    (report.pc = "Done" /\ PartialFailure) =>
        /\ ~report.raised
        /\ Len(report.output) = Len(report.requested)
        /\ \A k \in 1..Len(report.requested) :
               /\ report.output[k][1] = report.requested[k]
               /\ report.output[k][2] = "ok"
                      <=> report.status[report.requested[k]] = "Ok"
               /\ report.output[k][2] = "failed"
                      <=> report.status[report.requested[k]] = "Failed"

C17_Witness ==
    /\ report.pc = "Done"
    /\ report.requested = <<"summary", "financials">>
    /\ report.status["summary"] = "Ok"
    /\ report.status["financials"] = "Failed"
    /\ report.output = << <<"summary", "ok">>, <<"financials", "failed">> >>
    /\ ~report.raised

\* C18: the contents tool sends a POST to /v1/contents whose body has exactly
\* the keys urls, response_length and extract_effort: urls is the agent's
\* list unchanged and in order, response_length the configured value or
\* "max", extract_effort the configured value or "auto".
C18_ContentsRequest ==
    \A i \in Slots :
        (Created /\ T.kind = "contents" /\ IsSet(inv[i].request)) =>
            /\ inv[i].request[1].method = "POST"
            /\ inv[i].request[1].url = <<"https://api.valyu.ai/v1/contents">>
            /\ inv[i].requestBody =
                   Some(<< <<"urls", inv[i].args.urls[1]>>,
                           <<"response_length",
                             OrDefault(T.config.responseLength, "max")>>,
                           <<"extract_effort",
                             OrDefault(T.config.extractEffort, "auto")>> >>)
            /\ inv[i].request[1].body
                   = Some(JSONStringify(inv[i].requestBody[1]))

C18_Witness ==
    \E i \in Slots :
        /\ Created /\ T.kind = "contents"
        /\ T.config.extractEffort = Some("high")
        /\ inv[i].pc = "Dispatched"
        /\ inv[i].requestBody =
               Some(<< <<"urls", <<"https://b.example/y",
                                   "https://example.com/article">> >>,
                       <<"response_length", "max">>,
                       <<"extract_effort", "high">> >>)

\* The value a server reads for the first parameter of a query string whose
\* text after "=" is raw: the text up to the first "&", percent-decoded.
QueryValue(raw) ==
    CASE raw = "health%20%26%20bio" -> "health & bio"
      [] raw = "health & bio" -> "health "
      [] OTHER -> raw

C20_DefaultTen ==
    \A i \in Slots :
        (Composed(i) /\ T.kind \in SearchTools /\ ~IsSet(T.config.maxNumResults))
        => Get(inv[i].requestBody[1], "max_num_results") = Some(10)

\* C21: when the caller does not set searchType, the search_type every search
\* tool sends is "proprietary".
C21_DefaultProprietary ==
    \A i \in Slots :
        (Composed(i) /\ T.kind \in SearchTools /\ ~IsSet(T.config.searchType))
        => Get(inv[i].requestBody[1], "search_type") = Some("proprietary")

\* The position of a state in the pipeline; the two body reads belong to the
\* dispatched request.
Rank(pc) ==
    CASE pc = "Idle" -> 0
      [] pc = "Pending" -> 1
      [] pc = "Validated" -> 2
      [] pc \in {"Dispatched", "ReadingText", "ReadingJson"} -> 3
      [] pc \in Terminal -> 4

\* The outcomes invocation r has reported
Outcomes(r) == Len(r.result) + Len(r.error)

\* C22: each invocation moves only forward through Pending, Validated,
\* Dispatched and then exactly one of Succeeded or Failed: no step takes it
\* to an earlier state, Dispatched is entered at most once, Succeeded and
\* Failed are terminal (nothing of the invocation changes afterwards) and
\* exclusive, and exactly one outcome, a value or an error, is reported, at
\* the end.
C22_ForwardOnly ==
    [][\A i \in Slots :
          /\ Rank(inv'[i].pc) >= Rank(inv[i].pc)
          /\ inv[i].pc \in Terminal => inv'[i] = inv[i]
          /\ (Rank(inv[i].pc) < 3 /\ Rank(inv'[i].pc) = 3)
                 => inv'[i].fetches = 1
          /\ Rank(inv[i].pc) = 3 => inv'[i].fetches = 1
          /\ inv'[i].pc = "Succeeded"
                 => IsSet(inv'[i].result) /\ inv'[i].error = None
          /\ inv'[i].pc = "Failed"
                 => IsSet(inv'[i].error) /\ inv'[i].result = None
          /\ Outcomes(inv'[i]) = IF inv'[i].pc \in Terminal THEN 1 ELSE 0]_vars

C22_Witness ==
    \E i \in Slots :
        /\ inv[i].pc = "Failed"
        /\ inv[i].fetches = 1
        /\ inv[i].textCalls = 1
        /\ Outcomes(inv[i]) = 1

\* Invocation i failed on a 2xx answer whose body was read but is not JSON.
ParseFailed(i) ==
    /\ Created
    /\ BadJsonAnswer(i)
    /\ IsSet(inv[i].response[1].body)
    /\ inv[i].pc = "Failed"

\* C23 as stated: when the upstream answers 2xx and the body fails to parse
\* as JSON, the error the caller receives is the parse error of the body
\* read, as it was raised.
C23_ParseErrorAsIs ==
    \A i \in Slots :
        ParseFailed(i) => inv[i].error = Some(JsonSyntaxError)

\* C23 amended: when the upstream answers 2xx and the body fails to parse as
\* JSON, the caller receives a new Error (not the SyntaxError itself) whose
\* message is the tool's fixed prefix followed by the parse error's message.
C23_ParseErrorPrefixed ==
    \A i \in Slots :
        ParseFailed(i) =>
            /\ inv[i].error # Some(JsonSyntaxError)
            /\ inv[i].error =
                   Some(Err("Error",
                            <<ErrorPrefix(T.kind)>> \o JsonSyntaxError.message))

C23_Witness ==
    \E i \in Slots :
        /\ ParseFailed(i)
        /\ T.kind = "datasources"
        /\ inv[i].jsonCalls = 1
        /\ inv[i].error[1].class = "Error"
        /\ inv[i].error[1].message =
               <<"Failed to fetch datasources from Valyu: ",
                 "Unexpected token r in JSON at position 0">>

\* The search tool variants
Variants == SearchTools \ {"search"}

\* The members of a request body, whatever their order
BodyFields(b) == {b[k] : k \in 1..Len(b)}

\* C24: the search tool variants follow one execution path: two variants
\* made with the same fully explicit configuration and given the same query
\* compose equal request bodies (the same keys with the same values), and
\* for the same upstream answer both succeed with the same value or both
\* fail.
C24_VariantsAgree ==
    \A i, j \in Slots :
        (/\ ToolOf(i).kind \in Variants /\ ToolOf(j).kind \in Variants
         /\ ToolOf(i).config = FullConfig /\ ToolOf(j).config = FullConfig
         /\ inv[i].args = inv[j].args
         /\ IsSet(inv[i].requestBody) /\ IsSet(inv[j].requestBody))
        => /\ BodyFields(inv[i].requestBody[1])
                  = BodyFields(inv[j].requestBody[1])
           /\ (/\ inv[i].pc \in Terminal /\ inv[j].pc \in Terminal
               /\ inv[i].response = inv[j].response
               /\ inv[i].rejection = inv[j].rejection)
              => /\ inv[i].pc = inv[j].pc
                 /\ inv[i].result = inv[j].result

\* The scalar optional keys of body b carry values the configuration c set.
ScalarsExplicit(b, c) ==
    /\ HasKey(b, "max_price")
           => (IsSet(c.maxPrice) /\ Get(b, "max_price") = c.maxPrice)
    /\ HasKey(b, "relevance_threshold")
           => (IsSet(c.relevanceThreshold)
               /\ Get(b, "relevance_threshold") = c.relevanceThreshold)
    /\ HasKey(b, "category")
           => (Truthy(c.category) /\ Get(b, "category") = c.category)
    /\ HasKey(b, "response_length")
           => (IsSet(c.responseLength)
               /\ Get(b, "response_length") = c.responseLength)

SameInstance(i, j) ==
    (IF i < Len(tool) THEN i ELSE Len(tool))
        = (IF j < Len(tool) THEN j ELSE Len(tool))

C27_Terminates ==
    \A i \in Slots :
        /\ (inv[i].pc = "Pending") ~> (inv[i].pc \in Terminal)
        /\ (inv[i].pc = "Validated" /\ MissingKey(T))
               ~> (inv[i].pc = "Failed" /\ inv[i].fetches = 0)

C27_Witness ==
    \E i \in Slots :
        /\ Created /\ T.kind = "secSearch"
        /\ inv[i].pc = "Succeeded"
        /\ inv[i].fetches = 1
        /\ inv[i].jsonCalls = 1

\* C28: numeric configuration values are forwarded without a truthiness or
\* range test: whenever maxPrice or relevanceThreshold is set, 0 and values
\* outside the documented range included, the body has max_price or
\* relevance_threshold with exactly that value; maxNumResults is forwarded
\* as given, 0 and negative numbers included.
C28_NumbersForwarded ==
    \A i \in Slots :
        (Composed(i) /\ T.kind \in SearchTools) =>
            LET b == inv[i].requestBody[1]
                c == T.config
            IN  /\ IsSet(c.maxPrice) => Get(b, "max_price") = c.maxPrice
                /\ IsSet(c.relevanceThreshold)
                       => Get(b, "relevance_threshold") = c.relevanceThreshold
                /\ IsSet(c.maxNumResults)
                       => Get(b, "max_num_results") = c.maxNumResults
                /\ \A k \in 1..Len(b) :
                       b[k][1] \in {"max_price", "relevance_threshold",
                                    "max_num_results"}
                           => b[k][2] \in Int

C28_Witness ==
    \E i \in Slots :
        /\ Composed(i)
        /\ T.kind = "economicsSearch"
        /\ T.config.maxPrice = Some(0)
        /\ Get(inv[i].requestBody[1], "max_price") = Some(0)
        /\ Get(inv[i].requestBody[1], "max_num_results") = Some(3)

\* A negative result count and a threshold above 1 reach the body.
C28_OutOfRange ==
    \E i \in Slots :
        /\ Composed(i)
        /\ \/ Get(inv[i].requestBody[1], "max_num_results") = Some(-1)
           \/ Get(inv[i].requestBody[1], "relevance_threshold") = Some(2)

\* C29: in search and webSearch a per-call includedSources that is an empty
\* list is no override: the body carries the configuration's includedSources
\* when that list is non-empty, and no included_sources key when the
\* configuration has none or an empty one; a per-call excludedSources that is
\* an empty list produces no excluded_sources key.
C29_EmptyListNoOverride ==
    \A i \in Slots :
        (Composed(i) /\ T.kind \in CallSourceTools) =>
            LET b == inv[i].requestBody[1]
                c == T.config.includedSources
            IN  /\ inv[i].args.includedSources = Some(<< >>) =>
                       IF IsSet(c) /\ c[1] # << >>
                       THEN Get(b, "included_sources") = c
                       ELSE ~HasKey(b, "included_sources")
                /\ inv[i].args.excludedSources = Some(<< >>) =>
                       ~HasKey(b, "excluded_sources")

C29_Witness ==
    \E i \in Slots :
        /\ Composed(i)
        /\ T.kind = "webSearch"
        /\ inv[i].args.includedSources = Some(<< >>)
        /\ inv[i].args.excludedSources = Some(<< >>)
        /\ T.config.includedSources = Some(<<"b.org", "a.com">>)
        /\ Get(inv[i].requestBody[1], "included_sources")
               = Some(<<"b.org", "a.com">>)
        /\ ~HasKey(inv[i].requestBody[1], "excluded_sources")

\* What the try block of a failed invocation threw, before the catch block
RequestPhaseError(i) ==
    IF IsSet(inv[i].rejection) THEN inv[i].rejection[1]
    ELSE IF ~IsSet(inv[i].response[1].body) THEN BodyReadError
    ELSE IF ~ResponseOk(inv[i].response[1].status)
    THEN ApiError(inv[i].response[1].status, inv[i].response[1].body[1])
    ELSE JsonSyntaxError

\* The invocation failed after its request was sent
FailedInRequestPhase(i) ==
    Created /\ inv[i].pc = "Failed" /\ inv[i].fetches > 0

\* The invocation failed at the credential guard
FailedAtGuard(i) ==
    /\ Created
    /\ inv[i].pc = "Failed"
    /\ inv[i].fetches = 0
    /\ ValidArgs(T.kind, inv[i].args)

\* C30: error wrapping: an Error raised inside the request phase (transport
\* rejection, non-2xx status, body read or JSON parse failure) reaches the
\* caller as a new Error whose message is the tool's fixed "Failed to ..."
\* prefix followed by the original error's message in full; a thrown value
\* that is not an Error reaches the caller unchanged; the missing-credential
\* error is raised outside that phase and is never prefixed.
C30_ErrorWrapping ==
    \A i \in Slots :
        /\ FailedInRequestPhase(i) =>
               LET original == RequestPhaseError(i)
                   raised == inv[i].error[1]
               IN  IF original.class = "NonError"
                   THEN raised = original
                   ELSE /\ raised.class = "Error"
                        /\ raised.message[1] = ErrorPrefix(T.kind)
                        /\ Tail(raised.message) = original.message
        /\ FailedAtGuard(i) =>
               /\ inv[i].error = Some(MissingCredentialError)
               /\ inv[i].requestBody = None
               /\ ~Contains(inv[i].error[1].message, ErrorPrefix(T.kind))

C30_Witness ==
    \E i \in Slots :
        /\ FailedInRequestPhase(i)
        /\ T.kind = "contents"
        /\ inv[i].rejection = Some(Err("TypeError", <<"fetch failed">>))
        /\ inv[i].error =
               Some(Err("Error", <<"Failed to extract content with Valyu: ",
                                   "fetch failed">>))

\* A thrown value that is not an Error reached the caller as it was.
C30_NonErrorUnchanged ==
    \E i \in Slots :
        /\ FailedInRequestPhase(i)
        /\ inv[i].error = Some(Err("NonError", <<"aborted">>))

\* The credential guard raised its own message.
C30_GuardUnprefixed ==
    \E i \in Slots :
        /\ FailedAtGuard(i)
        /\ inv[i].error[1].message =
               <<"VALYU_API_KEY is required. Set it in environment variables or pass it in config.">>

====
